---------------------------- MODULE Spec2Model ----------------------------
(***************************************************************************)
(* Model of the calculator core of script.js: normalizeExpression, isSafe, *)
(* safeEval and the handlers pressValue, clearAll, backspace, useAnswer    *)
(* and compute.                                                            *)
(*                                                                         *)
(* A JavaScript string is a sequence of one-character strings.  A number   *)
(* is a record [k, n, d]: k = "num" is the rational n/d (d = -1 with n = 0 *)
(* is negative zero), "inf" is an infinity of sign n, "nan" is              *)
(* not-a-number.  Other JavaScript values the evaluation can produce have  *)
(* the kinds "fn" (a function, named by f), "undef", "obj" (a RegExp       *)
(* object), "str" (a string) and "irr" (Math.PI or Math.E, named by f);    *)
(* "null" is the initial lastAnswer.                                       *)
(*                                                                         *)
(* The page itself (updateScreen, addHistory, the Error display and its    *)
(* timer) holds no state that these functions read and is left out.        *)
(***************************************************************************)
EXTENDS Integers, Sequences, FiniteSets, TLC

VARIABLES
    current,     \* script.js:6   the expression being typed
    lastAnswer,  \* script.js:7   the last rounded result, or Null
    window,      \* the global scope that with(M) falls through to
    op,          \* the operation that ran last
    arg,         \* the string that operation was given
    out          \* what the call of safeEval in that operation left behind

vars == <<current, lastAnswer, window, op, arg, out>>

-----------------------------------------------------------------------------
(* Characters and strings                                                  *)

Digits == {"0", "1", "2", "3", "4", "5", "6", "7", "8", "9"}

UpperCase == <<"A","B","C","D","E","F","G","H","I","J","K","L","M",
               "N","O","P","Q","R","S","T","U","V","W","X","Y","Z">>

LowerCase == <<"a","b","c","d","e","f","g","h","i","j","k","l","m",
               "n","o","p","q","r","s","t","u","v","w","x","y","z">>

\* the three non-ASCII operator glyphs of script.js:18, each one character
TimesSign  == "U+00D7"
DivideSign == "U+00F7"
MinusSign  == "U+2212"

Range(s) == {s[i] : i \in DOMAIN s}

Letters == Range(UpperCase) \cup Range(LowerCase)

\* \s of a regular expression, for the white space the model types
WhiteSpace == {" "}

\* \w of a regular expression
WordChars == Letters \cup Digits \cup {"_"}

\* the canonical lower-case form the i flag compares
ToLower(c) ==
    IF \E i \in DOMAIN UpperCase : UpperCase[i] = c
    THEN LowerCase[CHOOSE i \in DOMAIN UpperCase : UpperCase[i] = c]
    ELSE c

DigitVal(c) ==
    CASE c = "0" -> 0 [] c = "1" -> 1 [] c = "2" -> 2 [] c = "3" -> 3
      [] c = "4" -> 4 [] c = "5" -> 5 [] c = "6" -> 6 [] c = "7" -> 7
      [] c = "8" -> 8 [] c = "9" -> 9

DigitChar(v) ==
    CASE v = 0 -> "0" [] v = 1 -> "1" [] v = 2 -> "2" [] v = 3 -> "3"
      [] v = 4 -> "4" [] v = 5 -> "5" [] v = 6 -> "6" [] v = 7 -> "7"
      [] v = 8 -> "8" [] v = 9 -> "9"

RECURSIVE Concat(_)
\* the concatenation of a sequence of strings
Concat(ss) == IF ss = <<>> THEN <<>> ELSE Head(ss) \o Concat(Tail(ss))

\* s.slice(i - 1), the suffix of s from position i (1-based)
From(s, i) == IF i > Len(s) THEN <<>> ELSE SubSeq(s, i, Len(s))

\* does the literal text w stand in s at position i
TextAt(s, i, w) ==
    /\ i >= 1
    /\ i + Len(w) - 1 <= Len(s)
    /\ \A j \in DOMAIN w : s[i + j - 1] = w[j]

\* s.includes(w)
Includes(s, w) == \E i \in 1..Len(s) : TextAt(s, i, w)

-----------------------------------------------------------------------------
(* normalizeExpression, script.js:15-37                                    *)

\* s.replace(/c/g, r) for a one-character pattern c
RECURSIVE ReplaceChar(_, _, _)
ReplaceChar(s, c, r) ==
    IF s = <<>> THEN <<>>
    ELSE (IF Head(s) = c THEN r ELSE <<Head(s)>>) \o ReplaceChar(Tail(s), c, r)

\* the length of the longest run of characters of set S at position i of s
RECURSIVE RunLen(_, _, _)
RunLen(s, i, S) ==
    IF i <= Len(s) /\ s[i] \in S THEN 1 + RunLen(s, i + 1, S) ELSE 0

\* a replacement text '$1/100' without the parentheses
PercentGroupBare(n) == n \o <<"/", "1", "0", "0">>

\* script.js:21: the replacement text '($1/100)' for the digits n
PercentGroup(n) == <<"(">> \o n \o <<"/", "1", "0", "0", ")">>

\* s.replace(/([0-9.]+)\s*%/g, '($1/100)'), scanning from position i.
\* [0-9.]+ is greedy and a shorter run cannot be followed by \s*%, so the
\* pattern matches at i exactly when the whole run from i, then the white
\* space after it, is followed by a percent sign.
RECURSIVE ReplacePercent(_, _)
ReplacePercent(s, i) ==
    IF i > Len(s) THEN <<>>
    ELSE LET run == RunLen(s, i, Digits \cup {"."})
             ws  == RunLen(s, i + run, WhiteSpace)
             pct == i + run + ws
         IN  IF run >= 1 /\ pct <= Len(s) /\ s[pct] = "%"
             THEN PercentGroup(SubSeq(s, i, i + run - 1))
                    \o ReplacePercent(s, pct + 1)
             ELSE <<s[i]>> \o ReplacePercent(s, i + 1)

\* \b at the gap before position i of s
WordBoundary(s, i) ==
    LET before == i - 1 >= 1 /\ i - 1 <= Len(s) /\ s[i - 1] \in WordChars
        after  == i >= 1 /\ i <= Len(s) /\ s[i] \in WordChars
    IN  before # after

\* /\bw\b/i matches at position i of s (w is given in lower case)
WordAt(s, i, w) ==
    /\ i + Len(w) - 1 <= Len(s)
    /\ \A j \in DOMAIN w : ToLower(s[i + j - 1]) = w[j]
    /\ WordBoundary(s, i)
    /\ WordBoundary(s, i + Len(w))

\* s.replace(/\bw\b/gi, r), scanning from position i
RECURSIVE ReplaceWord(_, _, _, _)
ReplaceWord(s, i, w, r) ==
    IF i > Len(s) THEN <<>>
    ELSE IF WordAt(s, i, w) THEN r \o ReplaceWord(s, i + Len(w), w, r)
    ELSE <<s[i]>> \o ReplaceWord(s, i + 1, w, r)

\* a caret rule that makes the caret a multiplication
CaretRuleTimes(s) == ReplaceChar(s, "^", <<"*">>)

\* script.js:25: s.replace(/\^/g, '**')
CaretRule(s) == ReplaceChar(s, "^", <<"*", "*">>)

normalizeExpression(s) ==
    IF s = <<>> THEN s
    ELSE LET s1 == ReplaceChar(ReplaceChar(ReplaceChar(s, TimesSign, <<"*">>),
                                           DivideSign, <<"/">>), MinusSign, <<"-">>)
             s2 == ReplacePercent(s1, 1)
             s3 == CaretRule(s2)
             s4 == ReplaceWord(s3, 1, <<"p", "i">>, <<"P", "I">>)
             s5 == ReplaceWord(s4, 1, <<"e">>, <<"E">>)
             s6 == ReplaceWord(s5, 1, <<"l", "o", "g", "1", "0">>,
                               <<"l", "o", "g", "1", "0">>)
             s7 == ReplaceWord(s6, 1, <<"l", "n">>, <<"l", "n">>)
         IN  s7

-----------------------------------------------------------------------------
(* isSafe, script.js:40-43                                                 *)

AllowedChars ==
    Digits \cup {"+", "-", "*", "/", "(", ")", ".", ",", "%"}
           \cup WhiteSpace \cup Letters \cup {"_"}

isSafe(s) == \A i \in DOMAIN s : s[i] \in AllowedChars

-----------------------------------------------------------------------------
(* JavaScript values and the Number arithmetic of the operators            *)

Val(k, n, d, f) == [k |-> k, n |-> n, d |-> d, f |-> f]

Null      == Val("null", 0, 1, <<>>)
Undefined == Val("undef", 0, 1, <<>>)
NaN       == Val("nan", 0, 1, <<>>)
Zero      == Val("num", 0, 1, <<>>)
NegZero   == Val("num", 0, -1, <<>>)
One       == Val("num", 1, 1, <<>>)
RegExpObj == Val("obj", 0, 1, <<>>)
StringVal == Val("str", 0, 1, <<>>)
Fn(name)  == Val("fn", 0, 1, name)
Inf(sign) == Val("inf", sign, 1, <<>>)

Abs(i) == IF i < 0 THEN -i ELSE i

RECURSIVE GCD(_, _)
GCD(a, b) == IF b = 0 THEN a ELSE GCD(b, a % b)

\* the number n/d (d # 0) in lowest terms; an exact zero is +0
Num(n, d) ==
    IF n = 0 THEN Zero
    ELSE LET g == GCD(Abs(n), Abs(d))
             s == IF d < 0 THEN -1 ELSE 1
         IN  Val("num", (s * n) \div g, Abs(d) \div g, <<>>)

IntV(n) == Num(n, 1)

IsNumber(v) == v.k \in {"num", "inf", "nan"}    \* typeof v === 'number'
IsFiniteNum(v) == v.k = "num"                   \* isFinite(v), v a number
IsZero(v)   == v.k = "num" /\ v.n = 0
IsNaN(v)    == v.k = "nan"
IsInf(v)    == v.k = "inf"

\* the sign bit of a number that is not NaN
Sign(v) ==
    IF v.k = "inf" THEN v.n
    ELSE IF v.n < 0 \/ (v.n = 0 /\ v.d < 0) THEN -1 ELSE 1

SignedZero(s) == IF s < 0 THEN NegZero ELSE Zero

\* ToNumber of the values the evaluation produces: a function, undefined,
\* a RegExp and the strings that + builds from them all convert to NaN
ToNumber(v) == IF IsNumber(v) THEN v ELSE NaN

Neg(a) ==
    CASE IsNaN(a)  -> NaN
      [] IsInf(a)  -> Inf(-a.n)
      [] IsZero(a) -> SignedZero(-Sign(a))
      [] OTHER     -> Num(-a.n, a.d)

NumAdd(a, b) ==
    CASE IsNaN(a) \/ IsNaN(b)   -> NaN
      [] IsInf(a) /\ IsInf(b)   -> IF a.n = b.n THEN a ELSE NaN
      [] IsInf(a)               -> a
      [] IsInf(b)               -> b
      [] IsZero(a) /\ IsZero(b) ->
            IF Sign(a) < 0 /\ Sign(b) < 0 THEN NegZero ELSE Zero
      [] IsZero(a)              -> b
      [] IsZero(b)              -> a
      [] OTHER                  -> Num(a.n * b.d + b.n * a.d, a.d * b.d)

NumSub(a, b) == NumAdd(a, Neg(b))

NumMul(a, b) ==
    CASE IsNaN(a) \/ IsNaN(b) -> NaN
      [] (IsInf(a) /\ IsZero(b)) \/ (IsZero(a) /\ IsInf(b)) -> NaN
      [] IsInf(a) \/ IsInf(b)   -> Inf(Sign(a) * Sign(b))
      [] IsZero(a) \/ IsZero(b) -> SignedZero(Sign(a) * Sign(b))
      [] OTHER                  -> Num(a.n * b.n, a.d * b.d)

NumDiv(a, b) ==
    CASE IsNaN(a) \/ IsNaN(b) -> NaN
      [] IsInf(a) /\ IsInf(b)   -> NaN
      [] IsInf(a)               -> Inf(Sign(a) * Sign(b))
      [] IsInf(b)               -> SignedZero(Sign(a) * Sign(b))
      [] IsZero(b)              ->
            IF IsZero(a) THEN NaN ELSE Inf(Sign(a) * Sign(b))
      [] IsZero(a)              -> SignedZero(Sign(a) * Sign(b))
      [] OTHER                  -> Num(a.n * b.d, a.d * b.n)

\* the % operator: the remainder has the sign of the dividend
NumMod(a, b) ==
    CASE IsNaN(a) \/ IsNaN(b) \/ IsInf(a) \/ IsZero(b) -> NaN
      [] IsInf(b)  -> a
      [] IsZero(a) -> a
      [] OTHER ->
            LET q == (Abs(a.n) * b.d) \div (a.d * Abs(b.n))
                r == Num(Abs(a.n) * b.d - q * Abs(b.n) * a.d, a.d * b.d)
            IN  IF IsZero(r) THEN SignedZero(Sign(a))
                ELSE IF Sign(a) < 0 THEN Neg(r) ELSE r

RECURSIVE IntPow(_, _)
IntPow(b, e) == IF e = 0 THEN 1 ELSE b * IntPow(b, e - 1)

IsInteger(v)    == v.k = "num" /\ Abs(v.d) = 1
IsOddInteger(v) == IsInteger(v) /\ v.n % 2 = 1

\* |a| compared with 1: -1, 0 or 1
MagnitudeVsOne(a) ==
    IF Abs(a.n) > a.d THEN 1 ELSE IF Abs(a.n) = a.d THEN 0 ELSE -1

\* Number::exponentiate, the ** operator and Math.pow.  A positive base
\* other than 1 with a fractional exponent has no rational value and is
\* outside the model: no input of the specifications below produces one.
NumPow(a, b) ==
    CASE IsNaN(b)  -> NaN
      [] IsZero(b) -> One
      [] IsNaN(a)  -> NaN
      [] IsInf(a) /\ a.n > 0 -> IF Sign(b) > 0 THEN Inf(1) ELSE Zero
      [] IsInf(a) /\ a.n < 0 ->
            IF Sign(b) > 0
            THEN (IF IsOddInteger(b) THEN Inf(-1) ELSE Inf(1))
            ELSE (IF IsOddInteger(b) THEN NegZero ELSE Zero)
      [] IsZero(a) /\ Sign(a) > 0 -> IF Sign(b) > 0 THEN Zero ELSE Inf(1)
      [] IsZero(a) /\ Sign(a) < 0 ->
            IF Sign(b) > 0
            THEN (IF IsOddInteger(b) THEN NegZero ELSE Zero)
            ELSE (IF IsOddInteger(b) THEN Inf(-1) ELSE Inf(1))
      [] IsInf(b) ->
            IF MagnitudeVsOne(a) = 0 THEN NaN
            ELSE IF (MagnitudeVsOne(a) > 0) = (b.n > 0) THEN Inf(1) ELSE Zero
      [] IsInteger(b) /\ b.n > 0 -> Num(IntPow(a.n, b.n), IntPow(a.d, b.n))
      [] IsInteger(b) /\ b.n < 0 -> Num(IntPow(a.d, -b.n), IntPow(a.n, -b.n))
      [] ~IsInteger(b) /\ Sign(a) < 0 -> NaN
      [] ~IsInteger(b) /\ a = One -> One

NumLess(a, b) ==
    CASE IsInf(a) /\ IsInf(b) -> a.n < b.n
      [] IsInf(a) -> a.n < 0
      [] IsInf(b) -> b.n > 0
      [] OTHER    -> a.n * Abs(b.d) < b.n * Abs(a.d)

IsSquare(i) == \E r \in 0..i : r * r = i
ISqrt(i)    == CHOOSE r \in 0..i : r * r = i

\* Math.sqrt.  The root of a positive rational that is not a square is
\* irrational and outside the model: no input below produces one.
MathSqrt(x) ==
    LET v == ToNumber(x)
    IN  CASE IsNaN(v)  -> NaN
          [] IsZero(v) -> v
          [] Sign(v) < 0 -> NaN
          [] IsInf(v)  -> v
          [] IsSquare(v.n) /\ IsSquare(v.d) -> Num(ISqrt(v.n), ISqrt(v.d))

MathAbs(x) ==
    LET v == ToNumber(x)
    IN  CASE IsNaN(v)  -> NaN
          [] IsInf(v)  -> Inf(1)
          [] IsZero(v) -> Zero
          [] OTHER     -> Num(Abs(v.n), v.d)

MathFloor(x) ==
    LET v == ToNumber(x)
    IN  IF v.k # "num" \/ IsZero(v) THEN v
        ELSE IF v.n > 0 /\ v.n < v.d THEN Zero
        ELSE IntV(v.n \div v.d)

MathCeil(x) == Neg(MathFloor(Neg(ToNumber(x))))

\* Math.round: floor(x + 1/2), keeping the sign of a zero result
MathRound(x) ==
    LET v == ToNumber(x)
    IN  IF v.k # "num" \/ IsZero(v) THEN v
        ELSE LET r == (2 * v.n + v.d) \div (2 * v.d)
             IN  IF r = 0 THEN SignedZero(Sign(v)) ELSE IntV(r)

RECURSIVE MathMax(_)
\* Math.max of a sequence of arguments
MathMax(xs) ==
    IF xs = <<>> THEN Inf(-1)
    ELSE LET a == ToNumber(Head(xs))
             b == MathMax(Tail(xs))
         IN  CASE IsNaN(a) \/ IsNaN(b) -> NaN
               [] IsZero(a) /\ IsZero(b) ->
                     IF Sign(a) > 0 \/ Sign(b) > 0 THEN Zero ELSE NegZero
               [] NumLess(a, b) -> b
               [] OTHER -> a

RECURSIVE MathMin(_)
\* Math.min of a sequence of arguments
MathMin(xs) ==
    IF xs = <<>> THEN Inf(1)
    ELSE LET a == ToNumber(Head(xs))
             b == MathMin(Tail(xs))
         IN  CASE IsNaN(a) \/ IsNaN(b) -> NaN
               [] IsZero(a) /\ IsZero(b) ->
                     IF Sign(a) < 0 \/ Sign(b) < 0 THEN NegZero ELSE Zero
               [] NumLess(b, a) -> b
               [] OTHER -> a

-----------------------------------------------------------------------------
(* Numbers as text: String(x) and the rounding of compute                  *)

RECURSIVE StripFactor(_, _)
\* d with every factor p removed
StripFactor(d, p) == IF d % p = 0 THEN StripFactor(d \div p, p) ELSE d

RECURSIVE FactorCount(_, _)
FactorCount(d, p) == IF d % p = 0 THEN 1 + FactorCount(d \div p, p) ELSE 0

\* n/d has a finite decimal expansion
Terminates(d) == StripFactor(StripFactor(d, 2), 5) = 1

RECURSIVE IntDigits(_)
\* the decimal digits of a natural number
IntDigits(i) ==
    IF i < 10 THEN <<DigitChar(i)>>
    ELSE IntDigits(i \div 10) \o <<DigitChar(i % 10)>>

RECURSIVE FracDigits(_, _)
\* the digits after the decimal point of r/d, 0 <= r < d, d terminating
FracDigits(r, d) ==
    IF r = 0 THEN <<>>
    ELSE <<DigitChar((10 * r) \div d)>> \o FracDigits((10 * r) % d, d)

\* Number::toString of a number whose decimal expansion is finite (the
\* others need the 17 significant digits of the double and are outside the
\* model: compute only ever converts a value it has rounded)
NumberToString(v) ==
    CASE IsNaN(v)  -> <<"N", "a", "N">>
      [] IsInf(v)  -> (IF v.n < 0 THEN <<"-">> ELSE <<>>)
                        \o <<"I", "n", "f", "i", "n", "i", "t", "y">>
      [] IsZero(v) -> <<"0">>
      [] v.k = "num" /\ v.n # 0 /\ Terminates(v.d) ->
            LET sign  == IF v.n < 0 THEN <<"-">> ELSE <<>>
                whole == Abs(v.n) \div v.d
                frac  == FracDigits(Abs(v.n) % v.d, v.d)
                zeros == RunLen(frac, 1, {"0"})
                sig   == From(frac, zeros + 1)
            IN  IF whole = 0 /\ zeros >= 6
                THEN sign \o <<Head(sig)>>
                       \o (IF Len(sig) > 1 THEN <<".">> \o Tail(sig) ELSE <<>>)
                       \o <<"e", "-">> \o IntDigits(zeros + 1)
                ELSE sign \o IntDigits(whole)
                       \o (IF frac = <<>> THEN <<>> ELSE <<".">> \o frac)

\* Math.round((result + Number.EPSILON) * 1e12) / 1e12, script.js:128, of a
\* finite result.  When result * 10^12 is an integer k the product is
\* k + EPSILON * 10^12 with 0 < EPSILON * 10^12 < 1/2, which Math.round
\* takes to k, so the result comes back unchanged (a negative zero as +0).
\* A result with more than 12 decimals is outside the model: no input of
\* the specifications below produces one.
Round12(v) ==
    CASE IsZero(v) -> Zero
      [] v.k = "num" /\ v.n # 0 /\ Terminates(v.d)
           /\ FactorCount(v.d, 2) <= 12 /\ FactorCount(v.d, 5) <= 12 -> v

-----------------------------------------------------------------------------
(* The lexical grammar of the source text that new Function compiles      *)

Tok(t, p, id, v) == [t |-> t, p |-> p, id |-> id, v |-> v]

Punct(p)  == Tok("p", p, <<>>, Zero)
BadToken  == Tok("bad", "", <<>>, Zero)

IdentifierStart == Letters \cup {"_"}

RECURSIVE DigitsValue(_, _)
\* the value of a digit string in a base
DigitsValue(ds, base) ==
    IF ds = <<>> THEN 0
    ELSE DigitsValue(SubSeq(ds, 1, Len(ds) - 1), base) * base
           + DigitVal(ds[Len(ds)])

\* 0 followed by octal digits only: a LegacyOctalIntegerLiteral, which the
\* sloppy-mode code of new Function reads in base 8
IsLegacyOctal(ds) ==
    /\ Len(ds) > 1
    /\ ds[1] = "0"
    /\ \A i \in DOMAIN ds : DigitVal(ds[i]) < 8

\* the NumericLiteral at position i of s: its length and its value.  The
\* model types no exponent part, radix prefix, BigInt suffix or separator.
ScanNumber(s, i) ==
    IF s[i] = "."
    THEN LET fl == RunLen(s, i + 1, Digits)
             fr == SubSeq(s, i + 1, i + fl)
         IN  [len |-> 1 + fl, v |-> Num(DigitsValue(fr, 10), IntPow(10, fl))]
    ELSE LET il == RunLen(s, i, Digits)
             ds == SubSeq(s, i, i + il - 1)
         IN  IF IsLegacyOctal(ds)
             THEN [len |-> il, v |-> IntV(DigitsValue(ds, 8))]
             ELSE IF i + il <= Len(s) /\ s[i + il] = "."
             THEN LET fl == RunLen(s, i + il + 1, Digits)
                      fr == SubSeq(s, i + il + 1, i + il + fl)
                  IN  [len |-> il + 1 + fl,
                       v |-> Num(DigitsValue(ds, 10) * IntPow(10, fl)
                                   + DigitsValue(fr, 10), IntPow(10, fl))]
             ELSE [len |-> il, v |-> IntV(DigitsValue(ds, 10))]

\* the first position j >= i where the text w stands in s, or 0
FirstAt(s, i, w) ==
    IF \E j \in i..Len(s) : TextAt(s, j, w)
    THEN CHOOSE j \in i..Len(s) :
            TextAt(s, j, w) /\ \A h \in i..(j - 1) : ~TextAt(s, h, w)
    ELSE 0

RECURSIVE PatternOk(_, _, _, _)
\* the early errors of a RegExp pattern made of the allowed characters:
\* parentheses balance and a quantifier follows an atom
PatternOk(b, i, depth, atom) ==
    IF i > Len(b) THEN depth = 0
    ELSE CASE b[i] = "(" -> PatternOk(b, i + 1, depth + 1, FALSE)
           [] b[i] = ")" -> depth > 0 /\ PatternOk(b, i + 1, depth - 1, TRUE)
           [] b[i] \in {"*", "+"} -> atom /\ PatternOk(b, i + 1, depth, FALSE)
           [] OTHER -> PatternOk(b, i + 1, depth, TRUE)

FlagsOk(fl) ==
    /\ \A i \in DOMAIN fl : fl[i] \in {"d", "g", "i", "m", "s", "u", "v", "y"}
    /\ \A i, j \in DOMAIN fl : i # j => fl[i] # fl[j]
    /\ ~({"u", "v"} \subseteq Range(fl))

RECURSIVE Lex(_, _, _)
\* the tokens of s from position i; operand says whether the token before
\* ended an operand, which decides between a division and a RegExp literal.
\* A character sequence that is no token ends the list with BadToken.
Lex(s, i, operand) ==
    IF i > Len(s) THEN <<>>
    ELSE LET c == s[i]
             next == IF i < Len(s) THEN s[i + 1] ELSE ""
         IN
    CASE c \in WhiteSpace -> Lex(s, i + 1, operand)
      [] c \in Digits \/ (c = "." /\ next \in Digits) ->
            LET lit == ScanNumber(s, i)
                j == i + lit.len
            IN  IF j <= Len(s) /\ s[j] \in IdentifierStart \cup Digits
                THEN <<BadToken>>
                ELSE <<Tok("num", "", <<>>, lit.v)>> \o Lex(s, j, TRUE)
      [] c \in IdentifierStart ->
            LET n == RunLen(s, i, WordChars)
            IN  <<Tok("id", "", SubSeq(s, i, i + n - 1), Zero)>>
                  \o Lex(s, i + n, TRUE)
      [] c = "/" /\ next = "/" -> <<BadToken>>   \* comments out the closing ); }
      [] c = "/" /\ next = "*" ->
            LET j == FirstAt(s, i + 2, <<"*", "/">>)
            IN  IF j = 0 THEN <<BadToken>> ELSE Lex(s, j + 2, operand)
      [] c = "/" /\ next \notin {"/", "*"} /\ operand ->
            <<Punct("/")>> \o Lex(s, i + 1, FALSE)
      [] c = "/" /\ next \notin {"/", "*"} /\ ~operand ->
            LET j == FirstAt(s, i + 1, <<"/">>)
                n == RunLen(s, j + 1, WordChars)
            IN  IF j = 0 \/ ~PatternOk(SubSeq(s, i + 1, j - 1), 1, 0, FALSE)
                         \/ ~FlagsOk(SubSeq(s, j + 1, j + n))
                THEN <<BadToken>>
                ELSE <<Tok("regex", "", <<>>, Zero)>> \o Lex(s, j + 1 + n, TRUE)
      [] c = "+" -> IF next = "+"
                    THEN <<Punct("++")>> \o Lex(s, i + 2, operand)
                    ELSE <<Punct("+")>> \o Lex(s, i + 1, FALSE)
      [] c = "-" -> IF next = "-"
                    THEN <<Punct("--")>> \o Lex(s, i + 2, operand)
                    ELSE <<Punct("-")>> \o Lex(s, i + 1, FALSE)
      [] c = "*" -> IF next = "*"
                    THEN <<Punct("**")>> \o Lex(s, i + 2, FALSE)
                    ELSE <<Punct("*")>> \o Lex(s, i + 1, FALSE)
      [] c \in {"%", "(", ",", "."} -> <<Punct(c)>> \o Lex(s, i + 1, FALSE)
      [] c = ")" -> <<Punct(")")>> \o Lex(s, i + 1, TRUE)
      [] OTHER -> <<BadToken>>

-----------------------------------------------------------------------------
(* The expression grammar: what parses, as a tree                          *)
(*                                                                         *)
(* The allowed characters spell only these operators: , + - * / % ** ++ -- *)
(* unary + and -, calls, member access and parentheses.  The model types   *)
(* no keyword (typeof, void, new, in, this, ...).                          *)

Parsed(node, pos) == [ok |-> TRUE, node |-> node, pos |-> pos]
SyntaxError       == [ok |-> FALSE, node |-> <<>>, pos |-> 0]

IsP(toks, pos, p) == pos <= Len(toks) /\ toks[pos].t = "p" /\ toks[pos].p = p
IsT(toks, pos, t) == pos <= Len(toks) /\ toks[pos].t = t

\* UpdateExpression: the operand of ++ and -- must be a reference.  A call
\* is let through to fail when it runs, as the engines do for the web.
IsTarget(node) == node.t \in {"id", "mem", "call"}

RECURSIVE Parse(_, _, _, _)
\* the parse of nonterminal nt at token pos; left is the operand already
\* parsed, for the nonterminals that continue one
Parse(nt, toks, pos, left) ==
    CASE nt = "Expression" ->
            \* Expression : AssignmentExpression (, AssignmentExpression)*
            LET a == Parse("Additive", toks, pos, <<>>)
            IN  IF ~a.ok THEN SyntaxError
                ELSE Parse("ExpressionRest", toks, a.pos, a.node)
      [] nt = "ExpressionRest" ->
            IF IsP(toks, pos, ",")
            THEN LET b == Parse("Additive", toks, pos + 1, <<>>)
                 IN  IF ~b.ok THEN SyntaxError
                     ELSE Parse("ExpressionRest", toks, b.pos,
                            [t |-> "bin", op |-> ",", a |-> left, b |-> b.node])
            ELSE Parsed(left, pos)
      [] nt = "Additive" ->
            \* AdditiveExpression, left associative
            LET a == Parse("Multiplicative", toks, pos, <<>>)
            IN  IF ~a.ok THEN SyntaxError
                ELSE Parse("AdditiveRest", toks, a.pos, a.node)
      [] nt = "AdditiveRest" ->
            IF IsP(toks, pos, "+") \/ IsP(toks, pos, "-")
            THEN LET b == Parse("Multiplicative", toks, pos + 1, <<>>)
                 IN  IF ~b.ok THEN SyntaxError
                     ELSE Parse("AdditiveRest", toks, b.pos,
                            [t |-> "bin", op |-> toks[pos].p, a |-> left,
                             b |-> b.node])
            ELSE Parsed(left, pos)
      [] nt = "Multiplicative" ->
            \* MultiplicativeExpression, left associative
            LET a == Parse("Exponentiation", toks, pos, <<>>)
            IN  IF ~a.ok THEN SyntaxError
                ELSE Parse("MultiplicativeRest", toks, a.pos, a.node)
      [] nt = "MultiplicativeRest" ->
            IF IsP(toks, pos, "*") \/ IsP(toks, pos, "/") \/ IsP(toks, pos, "%")
            THEN LET b == Parse("Exponentiation", toks, pos + 1, <<>>)
                 IN  IF ~b.ok THEN SyntaxError
                     ELSE Parse("MultiplicativeRest", toks, b.pos,
                            [t |-> "bin", op |-> toks[pos].p, a |-> left,
                             b |-> b.node])
            ELSE Parsed(left, pos)
      [] nt = "Exponentiation" ->
            \* ExponentiationExpression : UnaryExpression
            \*        | UpdateExpression ** ExponentiationExpression
            \* right associative; a unary + or - may not be the base of **
            LET u == Parse("Unary", toks, pos, <<>>)
            IN  IF ~u.ok THEN SyntaxError
                ELSE IF ~IsP(toks, u.pos, "**") THEN u
                ELSE IF IsP(toks, pos, "+") \/ IsP(toks, pos, "-")
                THEN SyntaxError
                ELSE LET e == Parse("Exponentiation", toks, u.pos + 1, <<>>)
                     IN  IF ~e.ok THEN SyntaxError
                         ELSE Parsed([t |-> "bin", op |-> "**", a |-> u.node,
                                      b |-> e.node], e.pos)
      [] nt = "Unary" ->
            \* UnaryExpression : UpdateExpression | + Unary | - Unary
            IF IsP(toks, pos, "+") \/ IsP(toks, pos, "-")
            THEN LET a == Parse("Unary", toks, pos + 1, <<>>)
                 IN  IF ~a.ok THEN SyntaxError
                     ELSE Parsed([t |-> "un", op |-> toks[pos].p,
                                  a |-> a.node], a.pos)
            ELSE Parse("Update", toks, pos, <<>>)
      [] nt = "Update" ->
            \* UpdateExpression : LeftHandSide | LeftHandSide ++
            \*        | LeftHandSide -- | ++ Unary | -- Unary
            IF IsP(toks, pos, "++") \/ IsP(toks, pos, "--")
            THEN LET a == Parse("Unary", toks, pos + 1, <<>>)
                 IN  IF ~a.ok \/ ~IsTarget(a.node) THEN SyntaxError
                     ELSE Parsed([t |-> "upd", op |-> toks[pos].p,
                                  prefix |-> TRUE, a |-> a.node], a.pos)
            ELSE LET l == Parse("LeftHandSide", toks, pos, <<>>)
                 IN  IF ~l.ok THEN SyntaxError
                     ELSE IF IsP(toks, l.pos, "++") \/ IsP(toks, l.pos, "--")
                     THEN IF IsTarget(l.node)
                          THEN Parsed([t |-> "upd", op |-> toks[l.pos].p,
                                       prefix |-> FALSE, a |-> l.node],
                                      l.pos + 1)
                          ELSE SyntaxError
                     ELSE l
      [] nt = "LeftHandSide" ->
            \* a PrimaryExpression and the calls and .name that follow it
            LET p == Parse("Primary", toks, pos, <<>>)
            IN  IF ~p.ok THEN SyntaxError
                ELSE Parse("CallOrMember", toks, p.pos, p.node)
      [] nt = "CallOrMember" ->
            IF IsP(toks, pos, "(")
            THEN LET args == Parse("Arguments", toks, pos + 1, <<>>)
                 IN  IF ~args.ok THEN SyntaxError
                     ELSE Parse("CallOrMember", toks, args.pos,
                            [t |-> "call", f |-> left, args |-> args.node])
            ELSE IF IsP(toks, pos, ".")
            THEN IF IsT(toks, pos + 1, "id")
                 THEN Parse("CallOrMember", toks, pos + 2,
                        [t |-> "mem", a |-> left, name |-> toks[pos + 1].id])
                 ELSE SyntaxError
            ELSE Parsed(left, pos)
      [] nt = "Arguments" ->
            \* after the opening parenthesis, left holding the arguments
            \* parsed so far; a trailing comma is allowed
            IF IsP(toks, pos, ")") THEN Parsed(left, pos + 1)
            ELSE LET a == Parse("Additive", toks, pos, <<>>)
                 IN  IF ~a.ok THEN SyntaxError
                     ELSE IF IsP(toks, a.pos, ",")
                     THEN Parse("Arguments", toks, a.pos + 1,
                                Append(left, a.node))
                     ELSE IF IsP(toks, a.pos, ")")
                     THEN Parsed(Append(left, a.node), a.pos + 1)
                     ELSE SyntaxError
      [] nt = "Primary" ->
            \* PrimaryExpression: a literal, an identifier or ( Expression )
            CASE IsT(toks, pos, "num") ->
                    Parsed([t |-> "num", v |-> toks[pos].v], pos + 1)
              [] IsT(toks, pos, "id") ->
                    Parsed([t |-> "id", name |-> toks[pos].id], pos + 1)
              [] IsT(toks, pos, "regex") -> Parsed([t |-> "regex"], pos + 1)
              [] IsP(toks, pos, "(") ->
                    LET e == Parse("Expression", toks, pos + 1, <<>>)
                    IN  IF e.ok /\ IsP(toks, e.pos, ")")
                        THEN Parsed(e.node, e.pos + 1)
                        ELSE SyntaxError
              [] OTHER -> SyntaxError

\* new Function('M', 'with(M){ return (' + s + '); }'), script.js:92: the
\* text compiles when ( s ) is one Expression up to the semicolon
CompileBody(s) ==
    LET toks == Lex(<<"(">> \o s \o <<")">>, 1, FALSE)
        e    == Parse("Expression", toks, 1, <<>>)
    IN  IF e.ok /\ e.pos = Len(toks) + 1 THEN e ELSE SyntaxError

-----------------------------------------------------------------------------
(* Running the compiled expression inside with(M)                          *)

\* the names of script.js:53-79, as strings
NamePI == <<"P", "I">>
NameE  == <<"E">>
NameANS == <<"A", "N", "S">>
NameAlert == <<"a", "l", "e", "r", "t">>

MathFunctions ==
    { <<"s","i","n">>, <<"c","o","s">>, <<"t","a","n">>,
      <<"a","s","i","n">>, <<"a","c","o","s">>, <<"a","t","a","n">>,
      <<"s","q","r","t">>, <<"a","b","s">>, <<"f","l","o","o","r">>,
      <<"c","e","i","l">>, <<"r","o","u","n","d">>, <<"m","a","x">>,
      <<"m","i","n">>, <<"p","o","w">>, <<"e","x","p">>, <<"l","o","g">>,
      <<"l","n">>, <<"l","o","g","1","0">> }

\* Math.PI and Math.E: finite numbers with no rational value, which the
\* arithmetic of the model does not take
Irrational(name) == Val("irr", 0, 1, name)

IsNumberValue(v) == IsNumber(v) \/ v.k = "irr"         \* typeof v === 'number'
IsFiniteValue(v) == IsFiniteNum(v) \/ v.k = "irr"      \* isFinite(v)

\* the object M of script.js:53-79, built on every call
Namespace(la) ==
    [name \in MathFunctions \cup {NamePI, NameE, NameANS} |->
        CASE name = NamePI  -> Irrational(NamePI)
          [] name = NameE   -> Irrational(NameE)
          [] name = NameANS -> IF IsNumberValue(la) THEN la ELSE Zero
          [] OTHER          -> Fn(name)]

\* the global object of the page, as far as the model's inputs name it
InitialWindow == [name \in {NameAlert} |-> Fn(NameAlert)]

Env(M, W, outside, called) ==
    [M |-> M, W |-> W, outside |-> outside, called |-> called]

Done(v, env)      == [err |-> "", v |-> v, env |-> env]
Thrown(kind, env) == [err |-> kind, v |-> Undefined, env |-> env]

\* operands of the arithmetic operators: Math.PI and Math.E have no arm
Operand(v) ==
    CASE IsNumber(v) -> v
      [] v.k \in {"fn", "undef", "obj", "str"} -> NaN

\* does + concatenate: an operand that ToPrimitive turns into a string
IsStringy(v) == v.k \in {"fn", "obj", "str"}

BinaryOp(o, a, b) ==
    CASE o = "," -> b
      [] o = "+" -> IF IsStringy(a) \/ IsStringy(b) THEN StringVal
                    ELSE NumAdd(Operand(a), Operand(b))
      [] o = "-"  -> NumSub(Operand(a), Operand(b))
      [] o = "*"  -> NumMul(Operand(a), Operand(b))
      [] o = "/"  -> NumDiv(Operand(a), Operand(b))
      [] o = "%"  -> NumMod(Operand(a), Operand(b))
      [] o = "**" -> NumPow(Operand(a), Operand(b))

ArgOr(args, i) == IF i <= Len(args) THEN args[i] ELSE Undefined

\* the call of a function value on evaluated arguments.  sin, cos, tan,
\* asin, acos, atan, exp, log, ln and log10 are in M but their values are
\* not rational: the model's inputs do not call them.
CallFunction(f, args, env) ==
    CASE f = <<"s","q","r","t">> -> Done(MathSqrt(Operand(ArgOr(args, 1))), env)
      [] f = <<"a","b","s">> -> Done(MathAbs(Operand(ArgOr(args, 1))), env)
      [] f = <<"f","l","o","o","r">> ->
            Done(MathFloor(Operand(ArgOr(args, 1))), env)
      [] f = <<"c","e","i","l">> -> Done(MathCeil(Operand(ArgOr(args, 1))), env)
      [] f = <<"r","o","u","n","d">> ->
            Done(MathRound(Operand(ArgOr(args, 1))), env)
      [] f = <<"m","a","x">> ->
            Done(MathMax([i \in DOMAIN args |-> Operand(args[i])]), env)
      [] f = <<"m","i","n">> ->
            Done(MathMin([i \in DOMAIN args |-> Operand(args[i])]), env)
      [] f = <<"p","o","w">> ->
            Done(NumPow(Operand(ArgOr(args, 1)), Operand(ArgOr(args, 2))), env)
      [] f = NameAlert ->
            Done(Undefined, [env EXCEPT !.called = Append(@, f)])

\* with(M): an identifier is looked up in M first, then in the global scope
Resolvable(name, env) == name \in DOMAIN env.M \/ name \in DOMAIN env.W

Lookup(name, env) ==
    IF name \in DOMAIN env.M THEN env.M[name] ELSE env.W[name]

\* the scope an identifier was resolved in is remembered in env.outside
Resolve(name, env) ==
    IF name \in DOMAIN env.M THEN env
    ELSE [env EXCEPT !.outside = @ \cup {name}]

Assign(name, v, env) ==
    IF name \in DOMAIN env.M
    THEN [env EXCEPT !.M = [@ EXCEPT ![name] = v]]
    ELSE [env EXCEPT !.W = [@ EXCEPT ![name] = v], !.outside = @ \cup {name}]

RECURSIVE Eval(_, _), EvalArgs(_, _, _)

\* the arguments of a call, left to right; the values are collected in acc
EvalArgs(nodes, acc, env) ==
    IF nodes = <<>> THEN Done(acc, env)
    ELSE LET a == Eval(Head(nodes), env)
         IN  IF a.err # "" THEN a
             ELSE EvalArgs(Tail(nodes), Append(acc, a.v), a.env)

Eval(node, env) ==
    CASE node.t = "num"   -> Done(node.v, env)
      [] node.t = "regex" -> Done(RegExpObj, env)
      [] node.t = "id" ->
            IF Resolvable(node.name, env)
            THEN Done(Lookup(node.name, env), Resolve(node.name, env))
            ELSE Thrown("ReferenceError", env)
      [] node.t = "un" ->
            LET a == Eval(node.a, env)
            IN  IF a.err # "" THEN a
                ELSE IF node.op = "-" THEN Done(Neg(Operand(a.v)), a.env)
                ELSE Done(Operand(a.v), a.env)
      [] node.t = "bin" ->
            LET a == Eval(node.a, env)
                b == Eval(node.b, a.env)
            IN  IF a.err # "" THEN a
                ELSE IF b.err # "" THEN b
                ELSE Done(BinaryOp(node.op, a.v, b.v), b.env)
      [] node.t = "mem" ->
            \* no value here has a property of a name the model types
            LET a == Eval(node.a, env)
            IN  IF a.err # "" THEN a
                ELSE IF a.v.k = "undef" THEN Thrown("TypeError", a.env)
                ELSE Done(Undefined, a.env)
      [] node.t = "call" ->
            LET f    == Eval(node.f, env)
                args == EvalArgs(node.args, <<>>, f.env)
            IN  IF f.err # "" THEN f
                ELSE IF args.err # "" THEN args
                ELSE IF f.v.k # "fn" THEN Thrown("TypeError", args.env)
                ELSE CallFunction(f.v.f, args.v, args.env)
      [] node.t = "upd" /\ node.a.t = "id" ->
            IF ~Resolvable(node.a.name, env) THEN Thrown("ReferenceError", env)
            ELSE LET old == Operand(Lookup(node.a.name, env))
                     new == IF node.op = "++" THEN NumAdd(old, One)
                            ELSE NumSub(old, One)
                 IN  Done(IF node.prefix THEN new ELSE old,
                          Assign(node.a.name, new, env))
      [] node.t = "upd" /\ node.a.t = "mem" ->
            LET a == Eval(node.a, env)
            IN  IF a.err # "" THEN a ELSE Done(NaN, a.env)
      [] node.t = "upd" /\ node.a.t = "call" ->
            LET a == Eval(node.a, env)
            IN  IF a.err # "" THEN a ELSE Thrown("ReferenceError", a.env)

-----------------------------------------------------------------------------
(* safeEval, script.js:46-101                                              *)

\* /\bANS\b/ matches at position i of s
AnsAt(s, i) ==
    TextAt(s, i, NameANS) /\ WordBoundary(s, i) /\ WordBoundary(s, i + 3)

\* s.replace(/\bANS\b/g, r), scanning from position i
RECURSIVE ReplaceANS(_, _, _)
ReplaceANS(s, i, r) ==
    IF i > Len(s) THEN <<>>
    ELSE IF AnsAt(s, i) THEN r \o ReplaceANS(s, i + 3, r)
    ELSE <<s[i]>> \o ReplaceANS(s, i + 1, r)

\* script.js:82-84
SubstituteANS(s, M) ==
    IF \E i \in DOMAIN s : AnsAt(s, i)
    THEN ReplaceANS(s, 1, NumberToString(M[NameANS]))
    ELSE s

\* what a call of safeEval leaves behind: whether it threw and with which
\* message, the value it returned, the canonical string isSafe saw, the
\* source text handed to new Function, whether the try block was entered,
\* the error its catch clause caught, the identifiers resolved outside M,
\* the global functions called, and the global scope afterwards
Outcome(threw, message, value, canonical, source, tried, caught, env) ==
    [threw |-> threw, message |-> message, value |-> value,
     canonical |-> canonical, source |-> source, tried |-> tried,
     caught |-> caught, outside |-> env.outside, called |-> env.called,
     W |-> env.W]

\* throw new Error(message) before the try block
Reject(message, canonical, W) ==
    Outcome(TRUE, message, Undefined, canonical, <<>>, FALSE, "",
            Env(<<>>, W, {}, <<>>))

\* a catch clause that throws what it caught
CatchClauseRethrow(err) == err

\* script.js:97-100: the catch clause replaces whatever was thrown
CatchClause(err) == "Bad expression"

\* script.js:94-96: the result res of the call fn(M) that did not throw
Returned(res, s, canonical) ==
    IF IsNumberValue(res.v) /\ IsFiniteValue(res.v)
    THEN Outcome(FALSE, "", res.v, canonical, s, TRUE, "", res.env)
    ELSE Outcome(TRUE, CatchClause("Result not finite"), Undefined,
                 canonical, s, TRUE, "Result not finite", res.env)

\* script.js:93: the call fn(M) ended as res, by a value or by an exception
Called(res, s, canonical) ==
    IF res.err # ""
    THEN Outcome(TRUE, CatchClause(res.err), Undefined, canonical, s,
                 TRUE, res.err, res.env)
    ELSE Returned(res, s, canonical)

\* script.js:92-93: new Function compiled s to fn, or threw a SyntaxError
Compiled(fn, s, canonical, env) ==
    IF ~fn.ok
    THEN Outcome(TRUE, CatchClause("SyntaxError"), Undefined, canonical, s,
                 TRUE, "SyntaxError", env)
    ELSE Called(Eval(fn.node, env), s, canonical)

\* script.js:89-100: the try block on the source text s
TryBlock(s, canonical, M, W) ==
    Compiled(CompileBody(s), s, canonical, Env(M, W, {}, <<>>))

\* script.js:86-87, on the string t that the ANS substitution produced
CheckDots(t, canonical, M, W) ==
    IF Includes(t, <<".", ".">>)
    THEN Reject("Bad number format", canonical, W)
    ELSE TryBlock(t, canonical, M, W)

\* CheckSafe with the double-dot test moved before the allow-list test
CheckSafeDotsFirst(s, M, W) ==
    IF Includes(SubstituteANS(s, M), <<".", ".">>)
    THEN Reject("Bad number format", s, W)
    ELSE IF ~isSafe(s) THEN Reject("Invalid characters", s, W)
    ELSE TryBlock(SubstituteANS(s, M), s, M, W)

\* script.js:50-84, on the canonical string s
CheckSafe(s, M, W) ==
    IF ~isSafe(s) THEN Reject("Invalid characters", s, W)
    ELSE CheckDots(SubstituteANS(s, M), s, M, W)

\* raw is a string, la the lastAnswer and W the global scope of the call
safeEval(raw, la, W) ==
    IF raw = <<>> THEN Reject("Empty expression", <<>>, W)
    ELSE CheckSafe(normalizeExpression(raw), Namespace(la), W)

-----
(* The handlers, script.js:114-137                                         *)

\* the longest expression the model types
MaxCurrent == 3

\* the data-value of the buttons and the keys the model presses
Keys == {<<"2">>, <<"-">>, <<".">>}

NoCall == Reject("", <<>>, InitialWindow)

Init ==
    /\ current = <<>>
    /\ lastAnswer = Null
    /\ window = InitialWindow
    /\ op = "init"
    /\ arg = <<>>
    /\ out = NoCall

pressValue(v) ==
    /\ Len(current) + Len(v) <= MaxCurrent
    /\ current' = current \o v
    /\ op' = "pressValue"
    /\ arg' = v
    /\ out' = NoCall
    /\ UNCHANGED <<lastAnswer, window>>

clearAll ==
    /\ current' = <<>>
    /\ op' = "clearAll"
    /\ arg' = <<>>
    /\ out' = NoCall
    /\ UNCHANGED <<lastAnswer, window>>

backspace ==
    /\ current' = SubSeq(current, 1, Len(current) - 1)
    /\ op' = "backspace"
    /\ arg' = <<>>
    /\ out' = NoCall
    /\ UNCHANGED <<lastAnswer, window>>

useAnswer ==
    /\ lastAnswer # Null => Len(current) + Len(NumberToString(lastAnswer)) <= MaxCurrent
    /\ current' = IF lastAnswer # Null
                  THEN current \o NumberToString(lastAnswer)
                  ELSE current
    /\ op' = "useAnswer"
    /\ arg' = <<>>
    /\ out' = NoCall
    /\ UNCHANGED <<lastAnswer, window>>

\* a compute whose catch clause forgets the last answer
computedForgetting(result) ==
    /\ out' = result
    /\ window' = result.W
    /\ IF result.threw
       THEN lastAnswer' = Null /\ UNCHANGED current
       ELSE /\ lastAnswer' = Round12(result.value)
            /\ current' = NumberToString(Round12(result.value))

\* script.js:126-136: the try block of compute, safeEval having ended as
\* result
computed(result) ==
    /\ out' = result
    /\ window' = result.W
    /\ IF result.threw
       THEN UNCHANGED <<current, lastAnswer>>
       ELSE /\ lastAnswer' = Round12(result.value)
            /\ current' = NumberToString(Round12(result.value))

compute ==
    /\ op' = "compute"
    /\ arg' = current
    /\ IF current = <<>>
       THEN out' = NoCall /\ UNCHANGED <<current, lastAnswer, window>>
       ELSE computed(safeEval(current, lastAnswer, window))

Next ==
    \/ \E v \in Keys : pressValue(v)
    \/ clearAll
    \/ backspace
    \/ useAnswer
    \/ compute

Spec == Init /\ [][Next]_vars

-----------------------------------------------------------------------------
(* Specifications that call safeEval and normalizeExpression directly, on  *)
(* every string made of a few keys                                         *)

\* the strings made of at most n keys
Strings(keys, n) ==
    {Concat(ks) : ks \in UNION {[1..m -> keys] : m \in 0..n}}

InitCall(inputs, answers) ==
    /\ current = <<>>
    /\ lastAnswer \in answers
    /\ window = InitialWindow
    /\ op = "init"
    /\ arg \in inputs
    /\ out = NoCall

returned(result) ==
    /\ out' = result
    /\ window' = result.W

\* one call safeEval(arg) with the lastAnswer and global scope of the state
callSafeEval ==
    /\ op = "init"
    /\ op' = "safeEval"
    /\ returned(safeEval(arg, lastAnswer, window))
    /\ UNCHANGED <<current, lastAnswer, arg>>

\* one call normalizeExpression(arg); out.canonical holds what it returned
callNormalize ==
    /\ op = "init"
    /\ op' = "normalizeExpression"
    /\ out' = [NoCall EXCEPT !.canonical = normalizeExpression(arg)]
    /\ UNCHANGED <<current, lastAnswer, window, arg>>

Evaluated  == op = "safeEval"
Normalized == op = "normalizeExpression"

\* the messages of the errors safeEval constructs, script.js:47-99
EmptyExpression   == "Empty expression"
InvalidCharacters == "Invalid characters"
BadNumberFormat   == "Bad number format"
NonFiniteResult   == "Result not finite"
BadExpression     == "Bad expression"

ErrorKinds ==
    {EmptyExpression, InvalidCharacters, BadNumberFormat, NonFiniteResult,
     BadExpression}

KeySqrtOfMinus == <<"s", "q", "r", "t", "(", "-">>
KeyFoo   == <<"f", "o", "o">>
KeyAbs   == <<"a", "b", "s">>
KeyLOG10 == <<"L", "O", "G", "1", "0">>

-----------------------------------------------------------------------------
(* The checks before the evaluation, script.js:47-87                       *)

MaxKeysChecks == 4

KeysChecks == {<<"1">>, <<".">>, <<"!">>, <<"+">>, NameANS}

InitChecks ==
    InitCall(Strings(KeysChecks, MaxKeysChecks), {Null, Num(3, 2)})

SpecChecks == InitChecks /\ [][callSafeEval]_vars

\* the call threw the error of kind m before the try block was entered
Rejected(m) == out.threw /\ out.message = m /\ ~out.tried

\* C3: the checks run in the order empty input, allow-list, double dot, and
\* the first that fails decides the error: an empty input is an
\* EmptyExpression; a non-empty input whose canonical form has a character
\* outside the allow-list is InvalidCharacters, with or without a double
\* dot; an input of allowed characters with a double dot is a
\* BadNumberFormat; none of the three reaches the evaluation.
C3_CheckOrder ==
    Evaluated =>
        /\ arg = <<>> => Rejected(EmptyExpression)
        /\ (arg # <<>> /\ ~(Range(normalizeExpression(arg)) \subseteq AllowedChars))
              => Rejected(InvalidCharacters)
        /\ (arg # <<>> /\ Range(normalizeExpression(arg)) \subseteq AllowedChars
                       /\ Includes(arg, <<".", ".">>))
              => Rejected(BadNumberFormat)

\* a double dot and a character outside the allow-list in one input
C3_Witness ==
    /\ Evaluated
    /\ Includes(arg, <<".", ".">>)
    /\ "!" \in Range(arg)
    /\ Rejected(InvalidCharacters)

-----------------------------------------------------------------------------
(* The failures of the evaluation, script.js:89-100                        *)

MaxKeysErrors == 4

KeysErrors ==
    {<<"1">>, <<"0">>, <<"/">>, <<"(">>, <<")">>, <<".">>, <<"!">>,
     KeySqrtOfMinus, KeyFoo}

InitErrors == InitCall(Strings(KeysErrors, MaxKeysErrors), {Null})

SpecErrors == InitErrors /\ [][callSafeEval]_vars

\* C1: when the evaluation produces a value that is not a finite number,
\* the call fails with the error NonFiniteResult (and not BadExpression).
C1_NonFiniteResult ==
    (Evaluated /\ out.caught = "Result not finite")
        => out.threw /\ out.message = NonFiniteResult

\* C8: every failure of safeEval is one of the classified errors, and an
\* exception raised by the evaluation itself (a SyntaxError of the
\* compilation, a ReferenceError of an unknown identifier, a TypeError of
\* a call) reaches the caller as BadExpression, never as itself.
C8_FailuresClassified ==
    (Evaluated /\ out.threw) =>
        /\ out.message \in ErrorKinds
        /\ out.caught \in {"SyntaxError", "ReferenceError", "TypeError"}
              => out.message = BadExpression

\* an unknown identifier, whose ReferenceError the catch clause caught
C8_Witness ==
    /\ Evaluated
    /\ out.threw
    /\ out.caught = "ReferenceError"
    /\ out.message = BadExpression

-----------------------------------------------------------------------------
(* The scope of the evaluation, script.js:40-43 and 89-93                  *)

MaxKeysScope == 4

KeysScope == {NameAlert, KeyAbs, KeyFoo, <<"(">>, <<"1">>, <<")">>}

InitScope == InitCall(Strings(KeysScope, MaxKeysScope), {Null})

SpecScope == InitScope /\ [][callSafeEval]_vars

\* the identifiers written in s: the maximal runs of word characters that
\* start with a letter or an underscore
Words(s) ==
    {SubSeq(s, i, i + RunLen(s, i, WordChars) - 1) :
        i \in {k \in DOMAIN s : /\ s[k] \in IdentifierStart
                                /\ (k = 1 \/ s[k - 1] \notin WordChars)}}

\* C2: an input whose canonical form contains an identifier that is not an
\* entry of the Namespace fails with InvalidCharacters, and no identifier
\* is resolved outside the Namespace and no function outside it is called.
C2_OnlyNamespace ==
    (Evaluated /\ Words(normalizeExpression(arg)) \ DOMAIN Namespace(lastAnswer) # {})
        => /\ Rejected(InvalidCharacters)
           /\ out.outside = {}
           /\ out.called = <<>>

-----------------------------------------------------------------------------
(* The percent sign, script.js:20-21 and 40-43                             *)

MaxKeysPercent == 5

KeysPercent == {<<"7">>, <<"3">>, <<"(">>, <<")">>, <<"%">>}

InitPercent == InitCall(Strings(KeysPercent, MaxKeysPercent), {Null})

SpecPercent == InitPercent /\ [][callSafeEval]_vars

\* C6: the canonical string has no percent sign when it reaches the
\* allow-list check and the evaluation, so that no percent sign is
\* evaluated as the modulo operator.
C6_NoPercentLeft ==
    Evaluated =>
        /\ "%" \notin Range(normalizeExpression(arg))
        /\ "%" \notin Range(out.source)

-----------------------------------------------------------------------------
(* normalizeExpression on its own output, script.js:15-37                  *)

MaxKeysNorm == 4

KeysNorm ==
    {<<"p">>, <<"I">>, <<"e">>, <<"5">>, <<"%">>, <<" ">>, <<"^">>, <<".">>,
     <<TimesSign>>, <<"L", "N">>, KeyLOG10}

InitNorm == InitCall(Strings(KeysNorm, MaxKeysNorm), {Null})

SpecNorm == InitNorm /\ [][callNormalize]_vars

\* C7: normalizeExpression is idempotent: normalizing what it returned
\* returns the same string.
C7_Idempotent ==
    Normalized => normalizeExpression(out.canonical) = out.canonical

\* the percent rule fired and left a percent sign in what it returned
C7_Witness ==
    /\ Normalized
    /\ Includes(arg, <<"5", "%", "%">>)
    /\ Includes(out.canonical, <<")", "%">>)

-----------------------------------------------------------------------------
(* The caret, script.js:23-25 and 89-94                                    *)

MaxOperand == 4

\* the decimal literal of a natural number
Literal(n) == NumberToString(IntV(n))

PowerText(a, b) == Literal(a) \o <<"^">> \o Literal(b)

SumPowerText(a, b, c) ==
    <<"(">> \o Literal(a) \o <<"+">> \o Literal(b) \o <<")", "^">> \o Literal(c)

ProductPowerText(a, b, c) ==
    Literal(a) \o <<"*">> \o Literal(b) \o <<"^">> \o Literal(c)

InputsCaret ==
    {PowerText(a, b) : a, b \in 0..MaxOperand}
      \cup {SumPowerText(a, b, c) : a, b, c \in 0..MaxOperand}
      \cup {ProductPowerText(a, b, c) : a, b, c \in 0..MaxOperand}

InitCaret == InitCall(InputsCaret, {Null})

SpecCaret == InitCaret /\ [][callSafeEval]_vars

\* the call returned the integer n (a zero of either sign is 0)
Returns(n) ==
    /\ ~out.threw
    /\ IF n = 0 THEN IsZero(out.value) ELSE out.value = IntV(n)

\* C9: the caret is exponentiation and binds tighter than the
\* multiplication: for small naturals a, b, c the input a^b returns a to
\* the power b, (a+b)^c returns a+b to the power c, and a*b^c returns a
\* times (b to the power c).
C9_CaretBindsTighter ==
    Evaluated =>
        \A a, b, c \in 0..MaxOperand :
            /\ arg = PowerText(a, b) => Returns(IntPow(a, b))
            /\ arg = SumPowerText(a, b, c) => Returns(IntPow(a + b, c))
            /\ arg = ProductPowerText(a, b, c) => Returns(a * IntPow(b, c))

\* 2*3^2 returned 18, which is not (2*3)^2
C9_Witness ==
    /\ Evaluated
    /\ arg = ProductPowerText(2, 3, 2)
    /\ Returns(18)

-----------------------------------------------------------------------------
(* Integer literals, script.js:89-94                                       *)

MaxDigits == 3

DigitsTyped == {"0", "1", "8"}

\* the digit strings of at most MaxDigits digits
Literals == UNION {[1..m -> DigitsTyped] : m \in 1..MaxDigits}

Operators == {"+", "-", "*"}

BinaryText(x, o, y) == x \o <<o>> \o y

GroupText(x, o, y) == <<"(">> \o x \o <<")", o, "(">> \o y \o <<")">>

InputsLiterals ==
    Literals
      \cup {BinaryText(x, o, y) : x, y \in Literals, o \in Operators}
      \cup {GroupText(x, o, y) : x, y \in Literals, o \in Operators}

InitLiterals == InitCall(InputsLiterals, {Null})

SpecLiterals == InitLiterals /\ [][callSafeEval]_vars

\* the digit string ds read in base 10
Decimal(ds) == DigitsValue(ds, 10)

\* ordinary integer arithmetic
Apply(o, m, n) ==
    CASE o = "+" -> m + n
      [] o = "-" -> m - n
      [] o = "*" -> m * n

\* C10: an expression of digit strings, read in base 10 whether or not
\* they start with zeros, and the operators + - * and parentheses returns
\* the integer that ordinary arithmetic gives.
C10_IntegerArithmetic ==
    Evaluated =>
        \A x, y \in Literals :
            /\ arg = x => Returns(Decimal(x))
            /\ \A o \in Operators :
                 /\ arg = BinaryText(x, o, y)
                      => Returns(Apply(o, Decimal(x), Decimal(y)))
                 /\ arg = GroupText(x, o, y)
                      => Returns(Apply(o, Decimal(x), Decimal(y)))

-----------------------------------------------------------------------------
(* The last answer as an operand, script.js:77-84                          *)

MaxAnswer == 3

Answers == {Null} \cup {IntV(n) : n \in (-MaxAnswer)..MaxAnswer}

AnsTimesText(k) == NameANS \o <<"*">> \o Literal(k)
MinusAnsText(k) == Literal(k) \o <<"-">> \o NameANS
AnsPowerText(k) == NameANS \o <<"^">> \o Literal(k)
PlusAnsText(k)  == Literal(k) \o <<"+">> \o NameANS

InputsAnswer ==
    {NameANS}
      \cup {AnsTimesText(k) : k \in 0..MaxAnswer}
      \cup {MinusAnsText(k) : k \in 0..MaxAnswer}
      \cup {AnsPowerText(k) : k \in 0..MaxAnswer}
      \cup {PlusAnsText(k) : k \in 0..MaxAnswer}

InitAnswer == InitCall(InputsAnswer, Answers)

SpecAnswer == InitAnswer /\ [][callSafeEval]_vars

\* the number ANS stands for: the last answer, or 0 when there is none
AnswerValue == IF lastAnswer = Null THEN 0 ELSE lastAnswer.n

\* C5: an expression with the token ANS as an operand returns its value
\* with ANS standing for the last answer, negative answers included:
\* ANS*k is v*k, k-ANS is k-v, ANS^k is v to the power k, k+ANS is k+v.
C5_AnswerOperand ==
    Evaluated =>
        /\ arg = NameANS => Returns(AnswerValue)
        /\ \A k \in 0..MaxAnswer :
             /\ arg = AnsTimesText(k) => Returns(AnswerValue * k)
             /\ arg = MinusAnsText(k) => Returns(k - AnswerValue)
             /\ arg = AnsPowerText(k) => Returns(IntPow(AnswerValue, k))
             /\ arg = PlusAnsText(k) => Returns(k + AnswerValue)

-----------------------------------------------------------------------------
(* The last answer across the handlers, script.js:114-137                  *)

\* the step was a compute whose call of safeEval returned a value
Succeeded == op' = "compute" /\ ~out'.threw

=============================================================================
